---------------------------- MODULE Spec2Model ----------------------------
(***************************************************************************)
(* A model of App.py, the Stock Portfolio Analyzer dashboard script.       *)
(*                                                                         *)
(* The script is rerun top to bottom on every user interaction.  One run   *)
(* of the script is one action of the model.  What is kept between runs is *)
(* the dashboard session's widget values and the pyplot module's current   *)
(* figure; everything else is recomputed.                                  *)
(*                                                                         *)
(* Texts are sequences of one-character strings.  pandas/numpy arithmetic  *)
(* on prices and returns is modelled in exact rational arithmetic; the one *)
(* floating-point comparison of the script, sum(weights_list) != 1.0, is   *)
(* modelled in IEEE-754 binary64 (round to nearest, ties to even).         *)
(***************************************************************************)
EXTENDS Integers, Sequences, FiniteSets, TLC

VARIABLES
    market,        \* the world: closing price of each ticker on each trading day
    tickers,       \* value of the "Enter Stock Tickers" text input      (line 44)
    start_date,    \* value of the "Start Date" date input               (line 45)
    end_date,      \* value of the "End Date" date input                 (line 46)
    weightsState,  \* session value of the weights text input, or absent (line 69)
    entered,       \* what the user last typed into the weights input
    gcf,           \* artists on pyplot's current figure (module-global state)
    stock_data,    \* what fetch_stock_data returned in the last run     (line 53)
    response,      \* what the provider answered in the last run         (line 10)
    event,         \* the interaction that caused the last run
    display,       \* everything the last run rendered
    fn_in,         \* argument of a direct call of calculate_metrics
    fn_out         \* its result

vars == << market, tickers, start_date, end_date, weightsState, entered, gcf,
           stock_data, response, event, display, fn_in, fn_out >>

-----------------------------------------------------------------------------
(* Sequences and texts *)

Range(s) == { s[i] : i \in DOMAIN s }

Abs(x) == IF x < 0 THEN -x ELSE x

RECURSIVE Gcd(_, _)
Gcd(a, b) == IF b = 0 THEN a ELSE Gcd(b, a % b)

-----------------------------------------------------------------------------
(* Exact rationals n/d, d > 0, in lowest terms *)

Q(n, d) ==
    LET s == IF d < 0 THEN -1 ELSE 1
        g == Gcd(Abs(n), Abs(d))
    IN  [n |-> (s * n) \div g, d |-> (s * d) \div g]

QZero == Q(0, 1)
QOne == Q(1, 1)
QAdd(a, b) ==
    LET g == Gcd(a.d, b.d)
    IN  Q(a.n * (b.d \div g) + b.n * (a.d \div g), (a.d \div g) * b.d)
QNeg(a) == [n |-> -a.n, d |-> a.d]
QSub(a, b) == QAdd(a, QNeg(b))
QMul(a, b) ==
    LET g1 == Gcd(Abs(a.n), b.d)
        g2 == Gcd(Abs(b.n), a.d)
    IN  Q((a.n \div g1) * (b.n \div g2), (a.d \div g2) * (b.d \div g1))
QDiv(a, b) == QMul(a, Q(b.d, b.n))
QLess(a, b) == a.n * b.d < b.n * a.d
QSign(a) == IF a.n > 0 THEN 1 ELSE IF a.n < 0 THEN -1 ELSE 0

RECURSIVE QSum(_)
QSum(s) == IF s = << >> THEN QZero ELSE QAdd(Head(s), QSum(Tail(s)))

RECURSIVE QMin(_)
QMin(s) ==
    IF Len(s) = 1 THEN s[1]
    ELSE LET m == QMin(Tail(s)) IN IF QLess(s[1], m) THEN s[1] ELSE m

RECURSIVE QMax(_)
QMax(s) ==
    IF Len(s) = 1 THEN s[1]
    ELSE LET m == QMax(Tail(s)) IN IF QLess(m, s[1]) THEN s[1] ELSE m

-----------------------------------------------------------------------------
(* str.split(","), str.strip(), str.upper() *)

Lower == << "a", "b", "c", "d", "e", "f", "g", "h", "i", "j", "k", "l", "m",
            "n", "o", "p", "q", "r", "s", "t", "u", "v", "w", "x", "y", "z" >>
Upper == << "A", "B", "C", "D", "E", "F", "G", "H", "I", "J", "K", "L", "M",
            "N", "O", "P", "Q", "R", "S", "T", "U", "V", "W", "X", "Y", "Z" >>
Digits == << "0", "1", "2", "3", "4", "5", "6", "7", "8", "9" >>

IndexOf(c, s) == IF \E i \in DOMAIN s : s[i] = c
                 THEN CHOOSE i \in DOMAIN s : s[i] = c
                 ELSE 0

upper(s) == [i \in DOMAIN s |->
                IF IndexOf(s[i], Lower) > 0 THEN Upper[IndexOf(s[i], Lower)] ELSE s[i]]

RECURSIVE lstrip(_)
lstrip(s) == IF s # << >> /\ Head(s) = " " THEN lstrip(Tail(s)) ELSE s

RECURSIVE rstrip(_)
rstrip(s) == IF s # << >> /\ s[Len(s)] = " "
             THEN rstrip(SubSeq(s, 1, Len(s) - 1))
             ELSE s

strip(s) == rstrip(lstrip(s))

\* s.split(","): always at least one piece; "" splits into one empty piece
RECURSIVE split(_)
split(s) ==
    LET i == IndexOf(",", s)
    IN  IF i = 0 THEN << s >>
        ELSE << SubSeq(s, 1, i - 1) >> \o split(SubSeq(s, i + 1, Len(s)))

strip_upper(parts) == [i \in DOMAIN parts |-> upper(strip(parts[i]))]

\* line 49: [ticker.strip().upper() for ticker in tickers.split(",")]
tickers_list(text) == strip_upper(split(text))

-----------------------------------------------------------------------------
(* float(): decimal literals  [ws] [+-] digits [. digits] [ws]             *)
(* The texts of this model use no exponent, no underscore and neither      *)
(* "inf" nor "nan"; every other text raises ValueError, as float() does.   *)

RECURSIVE Pow(_, _)
Pow(b, e) == IF e = 0 THEN 1 ELSE b * Pow(b, e - 1)

RECURSIVE DigitsValue(_)
DigitsValue(s) ==
    IF s = << >> THEN 0
    ELSE 10 * DigitsValue(SubSeq(s, 1, Len(s) - 1)) + (IndexOf(s[Len(s)], Digits) - 1)

IsDigit(c) == IndexOf(c, Digits) > 0

\* [ok, neg, m, k]: the literal denotes (-1)^neg * m / 10^k; ok = FALSE is ValueError
ParseFloat(tok) ==
    LET s      == strip(tok)
        signed == s # << >> /\ s[1] \in {"+", "-"}
        body   == IF signed THEN Tail(s) ELSE s
        dot    == IndexOf(".", body)
        digs   == SelectSeq(body, IsDigit)
        ok     == /\ digs # << >>
                  /\ \A i \in DOMAIN body : IsDigit(body[i]) \/ (body[i] = "." /\ i = dot)
    IN  [ok  |-> ok,
         neg |-> s # << >> /\ s[1] = "-",
         m   |-> IF ok THEN DigitsValue(digs) ELSE 0,
         k   |-> IF ok /\ dot > 0 THEN Len(body) - dot ELSE 0]

-----------------------------------------------------------------------------
(* IEEE-754 binary64 values of magnitude 0 or in [2^-7, 2^11), held in     *)
(* fixed point as four limbs << L0, L1, L2, L3 >> standing for             *)
(* L0 + L1/B + L2/B^2 + L3/B^3 with B = 2^LimbBits.  Every binary64 in     *)
(* that range is a multiple of 2^-59, so the grid holds it exactly.        *)

LimbBits == 20
Mantissa == 53
LimbBase == Pow(2, LimbBits)
FracBits == 3 * LimbBits

MagZero == << 0, 0, 0, 0 >>

\* a + b (the carry out of L0 stays in L0)
MagAdd(a, b) ==
    LET s3 == a[4] + b[4]
        s2 == a[3] + b[3] + (s3 \div LimbBase)
        s1 == a[2] + b[2] + (s2 \div LimbBase)
    IN  << a[1] + b[1] + (s1 \div LimbBase), s1 % LimbBase, s2 % LimbBase, s3 % LimbBase >>

\* a - b, a >= b
MagSub(a, b) ==
    LET d3 == a[4] - b[4]
        d2 == a[3] - b[3] - (IF d3 < 0 THEN 1 ELSE 0)
        d1 == a[2] - b[2] - (IF d2 < 0 THEN 1 ELSE 0)
    IN  << a[1] - b[1] - (IF d1 < 0 THEN 1 ELSE 0),
           d1 % LimbBase, d2 % LimbBase, d3 % LimbBase >>

\* a < b
MagLess(a, b) ==
    \E i \in 1..4 : a[i] < b[i] /\ \A j \in 1..(i - 1) : a[j] = b[j]

\* floor(log2(n)), n >= 1
RECURSIVE Log2(_)
Log2(n) == IF n <= 1 THEN 0 ELSE 1 + Log2(n \div 2)

\* round to Mantissa significant bits, to nearest, ties to even; sticky says
\* that non-zero digits follow beyond the last limb.  A value in [2^e, 2^(e+1))
\* keeps the fraction bits 1..(Mantissa - 1 - e) and drops the rest of L3.
Round53(mag, sticky) ==
    IF mag[1] = 0 /\ mag[2] = 0 THEN mag
    ELSE LET e    == IF mag[1] > 0 THEN Log2(mag[1]) ELSE Log2(mag[2]) - LimbBits
             drop == FracBits - (Mantissa - 1 - e)
         IN  IF drop <= 0 THEN mag
             ELSE LET unit == Pow(2, drop)
                      q    == mag[4] \div unit
                      rem  == mag[4] % unit
                      half == unit \div 2
                      kept == << mag[1], mag[2], mag[3], q * unit >>
                  IN  IF rem > half \/ (rem = half /\ (sticky \/ q % 2 = 1))
                      THEN MagAdd(kept, << 0, 0, 0, unit >>)
                      ELSE kept

\* the binary64 nearest to (-1)^neg * m / 10^k, by long division by D = 10^k
DecimalToF64(neg, m, k) ==
    LET D   == Pow(10, k)
        r0  == m % D
        r1  == (r0 * LimbBase) % D
        r2  == (r1 * LimbBase) % D
        r3  == (r2 * LimbBase) % D
        mag == Round53(<< m \div D, (r0 * LimbBase) \div D, (r1 * LimbBase) \div D,
                          (r2 * LimbBase) \div D >>, r3 # 0)
    IN  [neg |-> neg /\ mag # MagZero, mag |-> mag]

F64Zero == [neg |-> FALSE, mag |-> MagZero]
F64One == [neg |-> FALSE, mag |-> << 1, 0, 0, 0 >>]

\* x + y in binary64
F64Add(x, y) ==
    IF x.neg = y.neg
    THEN [neg |-> x.neg, mag |-> Round53(MagAdd(x.mag, y.mag), FALSE)]
    ELSE IF x.mag = y.mag THEN F64Zero
    ELSE IF MagLess(x.mag, y.mag)
         THEN [neg |-> y.neg, mag |-> Round53(MagSub(y.mag, x.mag), FALSE)]
         ELSE [neg |-> x.neg, mag |-> Round53(MagSub(x.mag, y.mag), FALSE)]

\* sum(xs): Python's left fold from the integer 0
RECURSIVE F64Sum(_)
F64Sum(xs) ==
    IF xs = << >> THEN F64Zero
    ELSE F64Add(F64Sum(SubSeq(xs, 1, Len(xs) - 1)), xs[Len(xs)])

-----------------------------------------------------------------------------
(* numpy float results in exact arithmetic: a finite rational, nan or an   *)
(* infinity (numpy divides by zero without raising)                        *)

Fin(q) == [kind |-> "fin", q |-> q]
NaN == [kind |-> "nan", q |-> QZero]
PInf == [kind |-> "inf", q |-> QZero]
NInf == [kind |-> "-inf", q |-> QZero]

\* a / b on numpy floats
NpDiv(a, b) ==
    IF a.kind # "fin" \/ b.kind # "fin" THEN NaN
    ELSE IF b.q.n # 0 THEN Fin(QDiv(a.q, b.q))
    ELSE IF a.q.n > 0 THEN PInf
    ELSE IF a.q.n < 0 THEN NInf
    ELSE NaN

\* a - b on numpy floats
NpSub(a, b) ==
    IF a.kind # "fin" \/ b.kind # "fin" THEN NaN ELSE Fin(QSub(a.q, b.q))

\* Values that carry a square root: sgn * sqrt(sq) * sqrt(rad), with sq a
\* rational and rad a positive integer; zero is held as sgn = 0, sq = 0, rad = 1
Surd(sgn, sq, rad) ==
    IF sgn = 0 \/ sq.n = 0
    THEN [kind |-> "fin", sgn |-> 0, sq |-> QZero, rad |-> 1]
    ELSE [kind |-> "fin", sgn |-> sgn, sq |-> sq, rad |-> rad]
SurdNaN == [kind |-> "nan", sgn |-> 0, sq |-> QZero, rad |-> 1]
SurdPInf == [kind |-> "inf", sgn |-> 1, sq |-> QZero, rad |-> 1]
SurdNInf == [kind |-> "-inf", sgn |-> -1, sq |-> QZero, rad |-> 1]

\* np.sqrt(252), the annualisation factor of lines 34 and 36
TradingDays == 252

-----------------------------------------------------------------------------
(* pandas: a frame is [field, columns, index, rows]; rows[i][c] is the     *)
(* value on date index[i] in column c.  field records which price field of *)
(* the provider's answer the values were taken from.                       *)

AdjClose == << "A", "d", "j", " ", "C", "l", "o", "s", "e" >>
Close == << "C", "l", "o", "s", "e" >>

None == [field |-> << "N", "o", "n", "e" >>, columns |-> << >>, index |-> << >>,
         rows |-> << >>]

\* DataFrame.empty
empty(df) == Len(df.columns) = 0 \/ Len(df.rows) = 0

\* line 64: stock_data.pct_change().dropna(); prices are positive, so only the
\* first row of pct_change() is NaN and dropped
pct_change_dropna(df) ==
    [field   |-> df.field,
     columns |-> df.columns,
     index   |-> [i \in 1..(Len(df.rows) - 1) |-> df.index[i + 1]],
     rows    |-> [i \in 1..(Len(df.rows) - 1) |->
                    [c \in DOMAIN df.columns |->
                        Q(df.rows[i + 1][c] - df.rows[i][c], df.rows[i][c])]]]

\* daily_returns * weights raises ValueError unless there is one weight per column
MulRaises(df, weights) == Len(weights) # Len(df.columns)

\* (daily_returns * weights).sum(axis=1): weights are applied by column position
weighted_sum(df, weights) ==
    [i \in DOMAIN df.rows |->
        QSum([c \in DOMAIN df.columns |-> QMul(df.rows[i][c], weights[c])])]

\* Series.cumsum()
cumsum(xs) == [i \in DOMAIN xs |-> QSum(SubSeq(xs, 1, i))]

RECURSIVE QProd(_)
QProd(s) == IF s = << >> THEN QOne ELSE QMul(Head(s), QProd(Tail(s)))

\* line 86: (1 + portfolio_returns).cumprod()
cumprod1(xs) == [i \in DOMAIN xs |-> QProd([j \in 1..i |-> QAdd(QOne, xs[j])])]

\* np.mean of a Series: nan when it is empty
np_mean(xs) == IF xs = << >> THEN NaN ELSE Fin(QDiv(QSum(xs), Q(Len(xs), 1)))

\* np.std of a Series: numpy hands over to Series.std(ddof=0), the population
\* standard deviation; nan when the Series is empty
np_std(xs) ==
    IF xs = << >> THEN SurdNaN
    ELSE LET mu  == QDiv(QSum(xs), Q(Len(xs), 1))
             dev == [i \in DOMAIN xs |-> QMul(QSub(xs[i], mu), QSub(xs[i], mu))]
         IN  Surd(1, QDiv(QSum(dev), Q(Len(xs), 1)), 1)

\* Series.min(), Series.max(): nan when the Series is empty
series_min(xs) == IF xs = << >> THEN NaN ELSE Fin(QMin(xs))
series_max(xs) == IF xs = << >> THEN NaN ELSE Fin(QMax(xs))

\* line 34: np.mean(r) / np.std(r) * np.sqrt(252)
sharpe_of(mean, std) ==
    IF mean.kind # "fin" \/ std.kind # "fin" THEN SurdNaN
    ELSE IF std.sgn = 0
         THEN (IF mean.q.n > 0 THEN SurdPInf
               ELSE IF mean.q.n < 0 THEN SurdNInf ELSE SurdNaN)
    ELSE Surd(QSign(mean.q), QDiv(QMul(mean.q, mean.q), std.sq), TradingDays)

\* the daily standard deviation, left without the annualising factor
daily_volatility(std) ==
    IF std.kind # "fin" THEN SurdNaN ELSE Surd(std.sgn, std.sq, 1)

\* line 36: np.std(r) * np.sqrt(252)
volatility_of(std) ==
    IF std.kind # "fin" THEN SurdNaN ELSE Surd(std.sgn, std.sq, TradingDays)

\* lines 32-37.  The caller guarantees one weight per column (line 33 raises
\* ValueError otherwise, see MulRaises).
calculate_metrics(daily_returns, weights) ==
    LET portfolio_returns == weighted_sum(daily_returns, weights)
        cs == cumsum(portfolio_returns)
    IN  [sharpe_ratio |-> sharpe_of(np_mean(portfolio_returns), np_std(portfolio_returns)),
         max_drawdown |-> NpDiv(NpSub(series_min(cs), series_max(cs)), series_max(cs)),
         volatility   |-> volatility_of(np_std(portfolio_returns))]

NoMetrics == [sharpe_ratio |-> SurdNaN, max_drawdown |-> NaN, volatility |-> SurdNaN]

-----------------------------------------------------------------------------
(* Bounds of the model *)

\* trading days of the modelled price history, numbered 1..NumDates; the day
\* NumDates + 1 stands for "today"
NumDates == 3
Dates == 1..NumDates
Today == NumDates + 1

\* the price histories a ticker can have: rising 1, 2, ... and falling ..., 2, 1
Rising == [d \in Dates |-> d]
Falling == [d \in Dates |-> Today - d]
Histories == {Rising, Falling}

AAPL == << "A", "A", "P", "L" >>
MSFT == << "M", "S", "F", "T" >>
GOOGL == << "G", "O", "O", "G", "L" >>
\* the tickers the provider knows
Universe == {AAPL, MSFT, GOOGL}

\* line 44: the default of the ticker input
DefaultTickers == << "A", "A", "P", "L", ",", " ", "M", "S", "F", "T", ",", " ", "G", "O", "O", "G", "L" >>
\* line 69: the default of the weights input
DefaultWeights == << "0", ".", "3", "3", ",", " ", "0", ".", "3", "3", ",", " ", "0", ".", "3", "4" >>

\* texts the user types into the ticker input
TickerTexts ==
    { DefaultTickers,
      << "a", "a", "p", "l", " ", ",", "a", "a", "p", "l", ",", "m", "s", "f", "t" >>,
      << " ", "m", "s", "f", "t" >> }

\* texts the user types into the weights input
WeightTexts ==
    { << "0", ".", "5", ",", "0", ".", "2", "5", ",", "0", ".", "2", "5" >> }

\* dates the user picks: the first or the last trading day as start, the last
\* trading day or today as end (the end day itself is not part of the answer)
StartChoices == {1, NumDates}
EndChoices == {NumDates, Today}

-----------------------------------------------------------------------------
(* The market-data provider, yf.download (line 10).  Its answer is one of  *)
(*   - an exception;                                                       *)
(*   - a frame with single-level columns named after price fields (the    *)
(*     shape for one ticker);                                              *)
(*   - a frame with two-level columns, either (ticker, field) or           *)
(*     (field, ticker).                                                    *)
(* The price fields it carries are any subset of {Adj Close, Close}; it    *)
(* answers once per distinct known ticker, in any column order, with one   *)
(* row per trading day d, start <= d < end.                                *)

Injective(f) == \A i, j \in DOMAIN f : f[i] = f[j] => i = j
Perms(S) == { f \in [1..Cardinality(S) -> S] : Injective(f) }

DateIndex(start, end) ==
    LET last == IF end > Today THEN Today ELSE end
        n    == IF last > start THEN last - start ELSE 0
    IN  [i \in 1..n |-> start + i - 1]

NoResponse == [kind |-> "none", multi |-> FALSE, by |-> "none", fields |-> {},
               tickers |-> << >>, index |-> << >>, data |-> << >>]

Frames(mkt, names, start, end) ==
    LET known == Range(names) \cap Universe
        idx   == DateIndex(start, end)
    IN  { [kind    |-> "frame",
           multi   |-> sh[1],
           by      |-> sh[2],
           fields  |-> fs,
           tickers |-> order,
           index   |-> idx,
           data    |-> [t \in known |-> [d \in Range(idx) |-> mkt[t][d]]]] :
          sh \in {<<TRUE, "ticker">>, <<TRUE, "field">>}
                 \cup (IF Cardinality(known) = 1 THEN {<<FALSE, "field">>} ELSE {}),
          fs \in SUBSET {AdjClose, Close},
          order \in Perms(known) }

ProviderOutcomes(mkt, names, start, end) ==
    {[NoResponse EXCEPT !.kind = "raise"]} \cup Frames(mkt, names, start, end)

-----------------------------------------------------------------------------
(* fetch_stock_data, lines 8-29 *)

\* the frame of one price field, one column per ticker in the answer's order
FieldFrame(resp, field, columns) ==
    [field   |-> field,
     columns |-> columns,
     index   |-> resp.index,
     rows    |-> [i \in DOMAIN resp.index |->
                    [c \in DOMAIN resp.tickers |->
                        resp.data[resp.tickers[c]][resp.index[i]]]]]

\* line 17: data.xs('Adj Close', axis=1, level=1, drop_level=True) looks the key
\* up among the names of column level 1 and raises KeyError when it is not there
XsLevel1(resp) ==
    IF resp.tickers = << >> \/ resp.fields = {} THEN {}
    ELSE IF resp.by = "ticker" THEN resp.fields ELSE Range(resp.tickers)

\* lines 10-26, the body of the try: [exc, ret, errors, preview]
fetch_body(resp) ==
    IF resp.kind = "raise"
    THEN [exc |-> "Exception", ret |-> None, errors |-> << >>, preview |-> FALSE]
    ELSE IF resp.multi
    THEN (IF AdjClose \in XsLevel1(resp)
          THEN [exc |-> "none", ret |-> FieldFrame(resp, AdjClose, resp.tickers),
                errors |-> << >>, preview |-> TRUE]
          ELSE [exc |-> "KeyError", ret |-> None, errors |-> << >>, preview |-> TRUE])
    ELSE IF AdjClose \in resp.fields
    THEN [exc |-> "none", ret |-> FieldFrame(resp, AdjClose, << AdjClose >>),
          errors |-> << >>, preview |-> TRUE]
    ELSE IF Close \in resp.fields
    THEN [exc |-> "none", ret |-> FieldFrame(resp, Close, << Close >>),
          errors |-> << >>, preview |-> TRUE]
    ELSE [exc |-> "none", ret |-> None, errors |-> << "missing" >>, preview |-> TRUE]

\* the classes derived from Exception among those the model raises
ExceptionClasses == {"Exception", "KeyError", "ValueError"}

\* a handler narrowed to "except ValueError"
CaughtOnlyValueError(exc) == exc = "ValueError"

\* line 27: "except Exception" catches every class derived from Exception
CaughtByFetch(exc) == exc \in ExceptionClasses

\* lines 9, 27-29: the try statement around the body
fetch_handler(b) ==
    IF b.exc = "none"
    THEN [raised |-> "none", ret |-> b.ret, errors |-> b.errors, preview |-> b.preview]
    ELSE IF CaughtByFetch(b.exc)
    THEN [raised |-> "none", ret |-> None, errors |-> Append(b.errors, "fetch"),
          preview |-> b.preview]
    ELSE [raised |-> b.exc, ret |-> None, errors |-> b.errors, preview |-> b.preview]

\* lines 8-29: [raised, ret, errors, preview]
fetch_stock_data(resp) == fetch_handler(fetch_body(resp))

-----------------------------------------------------------------------------
(* The dashboard session.  A widget's value lives in the session for as    *)
(* long as the widget is drawn: a run that does not call the widget drops  *)
(* its value, and the next call starts from the default again.             *)

Absent == [present |-> FALSE, value |-> << >>]
Present(text) == [present |-> TRUE, value |-> text]

\* st.sidebar.text_input(label, default): the session's value, else the default
text_input(state, default) == IF state.present THEN state.value ELSE default

\* the session after a run: the value of a widget the run did not draw is dropped
AfterRun(drawn, value) == IF drawn THEN Present(value) ELSE Absent

-----------------------------------------------------------------------------
(* pyplot keeps its figures in module state that outlives a run.  gcf is   *)
(* the list of artists on the current figure.                              *)

\* drawing on whatever figure is current, without opening a new one
keep_figure(fig) == fig

\* plt.figure(), plt.subplots(): a new, empty figure becomes the current one
new_figure(fig) == << >>

\* ax.pie raises ValueError on a negative wedge size
PieRaises(weights) == \E i \in DOMAIN weights : weights[i].n < 0

-----------------------------------------------------------------------------
(* One run of the script, lines 40-130 *)

Blank ==
    [preview           |-> FALSE,     \* line 13, "Fetched Data Preview"
     errors            |-> << >>,     \* st.error messages, in order
     prices            |-> None,      \* line 61, price chart
     daily_returns     |-> None,      \* line 66, returns chart
     weights_input     |-> FALSE,     \* line 69, the weights input is drawn
     weights_list      |-> << >>,     \* line 71
     metrics_shown     |-> FALSE,     \* lines 80-83
     metrics           |-> NoMetrics,
     portfolio_returns |-> << >>,     \* line 76
     cumulative        |-> << >>,     \* line 88, cumulative chart
     figures           |-> << >>,     \* st.pyplot images, in order
     table             |-> FALSE,     \* line 116
     uncaught          |-> "none"]    \* exception that ended the run

\* line 71: [float(weight) for weight in weights.split(",")]
ParseAll(parts) == [i \in DOMAIN parts |-> ParseFloat(parts[i])]
ParsedWeights(text) == ParseAll(split(text))

WeightValue(p) == Q(IF p.neg THEN -p.m ELSE p.m, Pow(10, p.k))
WeightValues(parsed) == [i \in DOMAIN parsed |-> WeightValue(parsed[i])]
WeightFloats(parsed) ==
    [i \in DOMAIN parsed |-> DecimalToF64(parsed[i].neg, parsed[i].m, parsed[i].k)]

\* line 72: len(weights_list) != len(tickers_list) or sum(weights_list) != 1.0
WeightsRejected(parsed, names) ==
    \/ Len(parsed) # Len(names)
    \/ F64Sum(WeightFloats(parsed)) # F64One

\* line 125: the handler of the try block catches ValueError only
CaughtByScript(exc) == exc = "ValueError"

\* lines 125-126: what the run shows after exception exc left the try block
Handler(shown, exc) ==
    IF CaughtByScript(exc)
    THEN [shown EXCEPT !.errors = Append(@, "invalid")]
    ELSE [shown EXCEPT !.uncaught = exc]

\* the result of a run: what it shows and what it leaves behind
Outcome(shown, fig, state, frame) ==
    [display |-> shown, gcf |-> fig, weightsState |-> state, stock_data |-> frame]

\* lines 118-123: the pie chart, drawn on a new figure
PieChart(shown, fig) ==
    IF PieRaises(shown.weights_list)
    THEN Outcome(Handler(shown, "ValueError"), new_figure(fig), Absent, None)
    ELSE Outcome([shown EXCEPT !.figures = Append(@, new_figure(fig) \o << "pie" >>)],
                 new_figure(fig) \o << "pie" >>, Absent, None)

\* lines 101-116: the scatter plot, drawn on a new figure, and the data table
ScatterPlot(shown, names, fig) ==
    PieChart([shown EXCEPT
                 !.figures = Append(@, new_figure(fig) \o << "scatter" >>
                                        \o [i \in DOMAIN names |-> "annotate"]),
                 !.table = TRUE],
             new_figure(fig) \o << "scatter" >> \o [i \in DOMAIN names |-> "annotate"])

\* lines 90-99: the moving averages, drawn on a new figure
MovingAverages(shown, names, fig) ==
    ScatterPlot([shown EXCEPT !.figures =
                    << new_figure(fig) \o << "prices", "ma50", "ma200", "legend" >> >>],
                names,
                new_figure(fig) \o << "prices", "ma50", "ma200", "legend" >>)

\* lines 76-88: the weighted returns, the metrics and the cumulative chart
Metrics(shown, names, fig) ==
    IF MulRaises(shown.daily_returns, shown.weights_list)
    THEN Outcome(Handler(shown, "ValueError"), fig, Absent, None)     \* line 76 raises
    ELSE MovingAverages(
             [shown EXCEPT
                 !.metrics_shown = TRUE,
                 !.metrics = calculate_metrics(shown.daily_returns, shown.weights_list),
                 !.portfolio_returns = weighted_sum(shown.daily_returns, shown.weights_list),
                 !.cumulative =
                     cumprod1(weighted_sum(shown.daily_returns, shown.weights_list))],
             names, fig)

\* lines 70-74: parsing and validating the weights
Validate(shown, names, parsed, fig) ==
    IF \E i \in DOMAIN parsed : ~parsed[i].ok
    THEN Outcome(Handler(shown, "ValueError"), fig, Absent, None)     \* line 71 raises
    ELSE IF WeightsRejected(parsed, names)
    THEN Outcome([shown EXCEPT !.errors = Append(@, "weights")], fig, Absent, None)
    ELSE Metrics([shown EXCEPT !.weights_list = WeightValues(parsed)], names, fig)

\* lines 56-126, for a price frame that is there and not empty:
\* [display, gcf, weightsState]
Portfolio(shown, names, weights, fig) ==
    [Validate([shown EXCEPT !.daily_returns = pct_change_dropna(shown.prices),
                            !.weights_input = TRUE],
              names, ParsedWeights(weights), fig)
     EXCEPT !.weightsState = AfterRun(TRUE, weights)]

\* what the run shows of the fetch (lines 13, 23, 28)
FetchShown(f) ==
    [Blank EXCEPT !.preview = f.preview, !.errors = f.errors, !.uncaught = f.raised]

\* lines 53-126, the body of "if st.sidebar.button(...)":
\* [display, gcf, weightsState, stock_data]
Analyze(f, names, state, fig) ==
    IF f.raised # "none" \/ f.ret = None \/ empty(f.ret)
    THEN Outcome(FetchShown(f), fig, AfterRun(FALSE, << >>), f.ret)
    ELSE [Portfolio([FetchShown(f) EXCEPT !.prices = f.ret], names,
                    text_input(state, DefaultWeights), fig)
          EXCEPT !.stock_data = f.ret]

\* lines 40-130: [display, gcf, weightsState, stock_data]
Script(button, text, resp, state, fig) ==
    IF ~button
    THEN Outcome(Blank, fig, AfterRun(FALSE, << >>), None)
    ELSE Analyze(fetch_stock_data(resp), tickers_list(text), state, fig)

-----------------------------------------------------------------------------
(* The session as a state machine: every user interaction reruns the script *)

NotCalled == [daily_returns |-> None, weights |-> << >>]
NoResult == [raised |-> "none", sharpe_ratio |-> SurdNaN, max_drawdown |-> NaN,
             volatility |-> SurdNaN]

Init ==
    /\ market \in [Universe -> Histories]
    /\ tickers = DefaultTickers
    /\ start_date = 1
    /\ end_date = Today
    /\ weightsState = Absent
    /\ entered = Absent
    /\ gcf = << >>
    /\ stock_data = None
    /\ response = NoResponse
    /\ event = [kind |-> "load", text |-> << >>]
    /\ display = Blank
    /\ fn_in = NotCalled
    /\ fn_out = NoResult

\* the state after a run with result r
Commit(ev, text, sd, ed, resp, r) ==
    /\ event' = ev
    /\ tickers' = text
    /\ start_date' = sd
    /\ end_date' = ed
    /\ response' = resp
    /\ display' = r.display
    /\ stock_data' = r.stock_data
    /\ weightsState' = r.weightsState
    /\ gcf' = r.gcf
    /\ UNCHANGED << market, fn_in, fn_out >>

\* one rerun: the widget values after the interaction, the button, the
\* provider's answer if it is asked, and the weights text the browser sends
Rerun(ev, text, sd, ed, resp, state) ==
    Commit(ev, text, sd, ed, resp, Script(ev.kind = "analyze", text, resp, state, gcf))

EditTickers ==
    \E text \in TickerTexts \ {tickers} :
        /\ Rerun([kind |-> "tickers", text |-> text], text, start_date, end_date,
                 NoResponse, weightsState)
        /\ UNCHANGED entered

EditStartDate ==
    \E d \in StartChoices \ {start_date} :
        /\ Rerun([kind |-> "start", text |-> << >>], tickers, d, end_date,
                 NoResponse, weightsState)
        /\ UNCHANGED entered

EditEndDate ==
    \E d \in EndChoices \ {end_date} :
        /\ Rerun([kind |-> "end", text |-> << >>], tickers, start_date, d,
                 NoResponse, weightsState)
        /\ UNCHANGED entered

\* the weights input can be edited only while it is on the page
EditWeights ==
    /\ display.weights_input
    /\ \E text \in WeightTexts \ {weightsState.value} :
        /\ Rerun([kind |-> "weights", text |-> text], tickers, start_date, end_date,
                 NoResponse, Present(text))
        /\ entered' = Present(text)

ClickAnalyze ==
    \E resp \in ProviderOutcomes(market, tickers_list(tickers), start_date, end_date) :
        /\ Rerun([kind |-> "analyze", text |-> << >>], tickers, start_date, end_date,
                 resp, weightsState)
        /\ UNCHANGED entered

Next == EditTickers \/ EditStartDate \/ EditEndDate \/ EditWeights \/ ClickAnalyze

Spec == Init /\ [][Next]_vars

-----------------------------------------------------------------------------
(* calculate_metrics called on its own: any table of daily returns with    *)
(* one or two columns and up to MaxRows rows, and any weight vector        *)

MaxRows == 2
ColumnCounts == {1, 2}
ReturnVals == {Q(-1, 2), Q(0, 1), Q(1, 1)}
WeightVals == {Q(0, 1), Q(1, 2), Q(1, 1)}

ReturnTables ==
    UNION { { [field   |-> AdjClose,
               columns |-> SubSeq(<< AAPL, MSFT >>, 1, c),
               index   |-> [i \in 1..r |-> i + 1],
               rows    |-> rows] :
              rows \in [1..r -> [1..c -> ReturnVals]] } :
            c \in ColumnCounts, r \in 0..MaxRows }

WeightVectors == UNION { [1..c -> WeightVals] : c \in ColumnCounts }

InitMetrics ==
    /\ market = [t \in Universe |-> Rising]
    /\ tickers = DefaultTickers
    /\ start_date = 1
    /\ end_date = Today
    /\ weightsState = Absent
    /\ entered = Absent
    /\ gcf = << >>
    /\ stock_data = None
    /\ response = NoResponse
    /\ event = [kind |-> "args", text |-> << >>]
    /\ display = Blank
    /\ fn_in \in [daily_returns : ReturnTables, weights : WeightVectors]
    /\ fn_out = NoResult

\* the call: line 33 raises ValueError unless there is one weight per column
Call(daily_returns, weights) ==
    IF MulRaises(daily_returns, weights)
    THEN [NoResult EXCEPT !.raised = "ValueError"]
    ELSE [raised       |-> "none",
          sharpe_ratio |-> calculate_metrics(daily_returns, weights).sharpe_ratio,
          max_drawdown |-> calculate_metrics(daily_returns, weights).max_drawdown,
          volatility   |-> calculate_metrics(daily_returns, weights).volatility]

CallMetrics ==
    /\ event.kind = "args"
    /\ event' = [kind |-> "called", text |-> << >>]
    /\ fn_out' = Call(fn_in.daily_returns, fn_in.weights)
    /\ UNCHANGED << market, tickers, start_date, end_date, weightsState, entered, gcf,
                    stock_data, response, display, fn_in >>

NextMetrics == CallMetrics

SpecMetrics == InitMetrics /\ [][NextMetrics]_vars

-----------------------------------------------------------------------------
(* Properties *)

Analyzed == event.kind = "analyze"
HasPrices == Analyzed /\ stock_data # None /\ ~empty(stock_data)

\* the weights text the last run read from the weights input
WeightsRead == weightsState.value

Member(x, seq) == \E i \in DOMAIN seq : seq[i] = x

\* C1: on an Analyze run with non-empty price data the metrics are shown exactly
\* when every weight parses, there is one weight per entry of tickers_list and
\* the weights add up to 1; otherwise an error is shown and no metric
C1_WeightsAccepted ==
    LET parsed == ParsedWeights(WeightsRead)
    IN  /\ \A i \in DOMAIN parsed : parsed[i].ok
        /\ Len(parsed) = Len(tickers_list(tickers))
        /\ QSum(WeightValues(parsed)) = QOne
C1_MetricsIffWeightsValid ==
    HasPrices =>
        /\ display.metrics_shown <=> C1_WeightsAccepted
        /\ ~C1_WeightsAccepted => (display.errors # << >> /\ ~display.metrics_shown)

\* C2: fetch_stock_data lets no exception out, returns a price table or None,
\* and has emitted an error message whenever it returns None
C2_FetchNeverRaises ==
    Analyzed =>
        /\ display.uncaught = "none"
        /\ stock_data = None =>
              (Member("fetch", display.errors) \/ Member("missing", display.errors))
        /\ stock_data # None =>
              (stock_data.field \in {AdjClose, Close} /\ stock_data.index = response.index)
C2_Witness ==
    /\ Analyzed
    /\ response.kind = "frame" /\ response.multi /\ AdjClose \notin XsLevel1(response)
    /\ stock_data = None
    /\ display.errors = << "fetch" >>

\* C3: every answer that carries a closing-price column, with single-level or
\* two-level columns, yields a table of that column's prices, Adj Close before
\* Close; None is returned only without such a column or when the provider fails
C3_HasClosingColumn ==
    response.kind = "frame" /\ response.tickers # << >>
        /\ response.fields \cap {AdjClose, Close} # {}
C3_ClosingPricesReturned ==
    Analyzed =>
        /\ C3_HasClosingColumn =>
              /\ stock_data # None
              /\ stock_data.field = (IF AdjClose \in response.fields THEN AdjClose ELSE Close)
              /\ \A i \in DOMAIN stock_data.rows : \A c \in DOMAIN response.tickers :
                    stock_data.rows[i][c] = market[response.tickers[c]][stock_data.index[i]]
        /\ stock_data = None => ~C3_HasClosingColumn

\* C5: the portfolio return of every date after the first is the sum over the
\* entries of tickers_list of the weight at that position times that ticker's
\* price change from the previous date
C5_Change(t, d) == Q(market[t][d] - market[t][d - 1], market[t][d - 1])
C5_WeightedByTicker ==
    display.metrics_shown =>
        LET names == tickers_list(tickers)
            idx   == stock_data.index
        IN  /\ Len(display.portfolio_returns) = Len(idx) - 1
            /\ \A i \in DOMAIN display.portfolio_returns :
                  display.portfolio_returns[i] =
                      QSum([j \in DOMAIN names |->
                               QMul(display.weights_list[j], C5_Change(names[j], idx[i + 1]))])

\* C7: what a run shows depends on that run's inputs only: it is what the
\* script shows for the same inputs in a session that kept nothing, neither a
\* widget value nor a pyplot figure
C7_FreshState == IF event.kind = "weights" THEN Present(event.text) ELSE Absent
C7_NoStatePersists ==
    display = Script(Analyzed, tickers, response, C7_FreshState, << >>).display
C7_Witness ==
    /\ Analyzed /\ display.metrics_shown
    /\ entered.present
    /\ Len(display.figures) = 3

\* C8: in every run that shows the metrics, the weights used are the weights
\* the user last entered in the weights input
C8_LastEntered == IF entered.present THEN entered.value ELSE DefaultWeights
C8_UsesEnteredWeights ==
    display.metrics_shown =>
        /\ WeightsRead = C8_LastEntered
        /\ display.weights_list = WeightValues(ParsedWeights(C8_LastEntered))

\* C9: every Analyze run ends having shown the metrics or an error message
C9_AnalyzeShowsMetricsOrError ==
    Analyzed => (display.metrics_shown \/ display.errors # << >>)

\* C10: "Invalid weight input" is shown only when some weight fails to parse,
\* never after the metrics have been shown, and no exception leaves the run
C10_InvalidOnlyForUnparsable ==
    /\ Member("invalid", display.errors) =>
          /\ \E i \in DOMAIN ParsedWeights(WeightsRead) : ~ParsedWeights(WeightsRead)[i].ok
          /\ ~display.metrics_shown
    /\ display.uncaught = "none"

-----------------------------------------------------------------------------
(* Properties of calculate_metrics called on its own *)

Called == event.kind = "called" /\ fn_out.raised = "none"

\* the weighted daily return of each row
WeightedReturns ==
    [i \in DOMAIN fn_in.daily_returns.rows |->
        QSum([c \in DOMAIN fn_in.weights |->
                 QMul(fn_in.weights[c], fn_in.daily_returns.rows[i][c])])]

\* the largest relative drop of a value series from a running peak to a later
\* trough (zero when the series never drops)
Drop(peak, trough) == QDiv(QSub(peak, trough), peak)
LargestDecline(values) ==
    LET later == { Drop(values[p[1]], values[p[2]]) :
                     p \in { q \in (DOMAIN values) \X (DOMAIN values) :
                               q[1] <= q[2] /\ values[q[1]].n > 0 } }
    IN  IF later = {} THEN QZero
        ELSE CHOOSE m \in later : \A x \in later : ~QLess(m, x)

\* C4: the max drawdown is the largest peak-to-trough decline of the
\* portfolio's cumulative value: of the compounded or of the summed returns,
\* with or without the starting value as a first peak, as a drop or as the
\* same number negated; stated for the calls that return a number
C4_IsDecline(values) ==
    \/ fn_out.max_drawdown = Fin(LargestDecline(values))
    \/ fn_out.max_drawdown = Fin(QNeg(LargestDecline(values)))
C4_MaxDrawdownIsPeakToTrough ==
    (Called /\ fn_out.max_drawdown.kind = "fin") =>
        \/ C4_IsDecline(cumprod1(WeightedReturns))
        \/ C4_IsDecline(<< QOne >> \o cumprod1(WeightedReturns))
        \/ C4_IsDecline(cumsum(WeightedReturns))
        \/ C4_IsDecline(<< QZero >> \o cumsum(WeightedReturns))

\* C6: Sharpe = mean / std * sqrt(252) and volatility = std * sqrt(252) over
\* the weighted daily returns, with one and the same std, so that
\* Sharpe * volatility = 252 * mean when std is not zero
C6_Mean == QDiv(QSum(WeightedReturns), Q(Len(WeightedReturns), 1))
C6_Variance ==
    QSub(QDiv(QSum([i \in DOMAIN WeightedReturns |->
                       QMul(WeightedReturns[i], WeightedReturns[i])]),
              Q(Len(WeightedReturns), 1)),
         QMul(C6_Mean, C6_Mean))
C6_SharpeAndVolatility ==
    (Called /\ WeightedReturns # << >>) =>
        /\ fn_out.volatility = Surd(1, C6_Variance, TradingDays)
        /\ C6_Variance.n # 0 =>
              /\ fn_out.sharpe_ratio =
                    Surd(QSign(C6_Mean), QDiv(QMul(C6_Mean, C6_Mean), C6_Variance),
                         TradingDays)
              /\ fn_out.sharpe_ratio.sgn * fn_out.volatility.sgn = QSign(C6_Mean)
              /\ C6_Mean.n # 0 =>
                    /\ QMul(fn_out.sharpe_ratio.sq, fn_out.volatility.sq)
                          = QMul(C6_Mean, C6_Mean)
                    /\ fn_out.sharpe_ratio.rad * fn_out.volatility.rad
                          = TradingDays * TradingDays
C6_Witness ==
    /\ Called
    /\ Len(WeightedReturns) = MaxRows
    /\ C6_Variance.n # 0
    /\ C6_Mean.n < 0

=============================================================================
